---------------------------- MODULE Spec2Model ----------------------------
(***************************************************************************)
(* Model of the two Document AI command-line scripts of Parchify-idp:      *)
(*   rawcod.py           single-file driver with the response normalizer   *)
(*   process_service.py  batch driver over ./input                         *)
(*                                                                         *)
(* Python strings whose characters the code inspects (paths, processor     *)
(* ids, entity sub-field types) are sequences of one-character strings.    *)
(* Strings the code only compares or stores whole (MIME types, entity      *)
(* types, values) are TLA+ strings.                                        *)
(***************************************************************************)
EXTENDS Integers, Sequences, FiniteSets, TLC

VARIABLES
    script,             \* which entry point runs: "rawcod" or "process_service"
    pc,                 \* position inside main()
    env,                \* os.environ: the three variables the scripts read
    fsys,               \* the files the configuration resolver reads
    cfg,                \* creds_path, project_id, processor_id, location
    file_path,          \* rawcod: the input path; MIME classifier: the argument
    found,              \* rawcod: os.path.exists(file_path) was seen to hold
    mime_type,          \* rawcod: mime_type; MIME classifier: the result
    listing,            \* process_service: what INPUT_DIR.iterdir() yielded
    files,              \* process_service: the filtered list `files`
    idx,                \* process_service: index of the file the loop is at
    failedAt,           \* process_service: index of the file whose process_file raised
    submitted,          \* the requests handed to client.process_document, in order
    written,            \* the output files written, in order
    entities,           \* rawcod: document.entities
    k,                  \* rawcod: index of the entity the normalizer loop is at
    structured_invoice, \* rawcod: the structured result
    transaction_id,     \* rawcod: the uuid4 string
    err,                \* the error of the taxonomy that occurred ("none" if none)
    exc,                \* class of the exception that left main() ("none" if none)
    ret                 \* return value of main() (-1 while running)

vars == <<script, pc, env, fsys, cfg, file_path, found, mime_type, listing,
          files, idx, failedAt, submitted, written, entities, k,
          structured_invoice, transaction_id, err, exc, ret>>

(***************************************************************************)
(* Bounds of the model.                                                    *)
(***************************************************************************)
MaxPrefixLen == 2   \* characters in front of the extension part of a file name
MaxFiles     == 3   \* entries of the input directory
MaxEntities  == 3   \* entities of a document
MaxChildren  == 2   \* direct children of an entity

(***************************************************************************)
(* Python string operations.                                               *)
(***************************************************************************)
SeqsUpTo(S, n) == UNION {[1..m -> S] : m \in 0..n}

UpperLetters == <<"A","B","C","D","E","F","G","H","I","J","K","L","M",
                  "N","O","P","Q","R","S","T","U","V","W","X","Y","Z">>
LowerLetters == <<"a","b","c","d","e","f","g","h","i","j","k","l","m",
                  "n","o","p","q","r","s","t","u","v","w","x","y","z">>

LowerChar(c) ==
    IF \E i \in 1..26 : UpperLetters[i] = c
    THEN LowerLetters[CHOOSE i \in 1..26 : UpperLetters[i] = c]
    ELSE c

UpperChar(c) ==
    IF \E i \in 1..26 : LowerLetters[i] = c
    THEN UpperLetters[CHOOSE i \in 1..26 : LowerLetters[i] = c]
    ELSE c

\* str.lower()
lower(s) == [i \in 1..Len(s) |-> LowerChar(s[i])]

\* str.upper(), used to build mixed-case inputs
upper(s) == [i \in 1..Len(s) |-> UpperChar(s[i])]

\* str.split(sep): the list of the pieces between the occurrences of sep
RECURSIVE split(_, _)
split(s, sep) ==
    IF \A i \in 1..Len(s) : s[i] # sep
    THEN <<s>>
    ELSE LET i == CHOOSE j \in 1..Len(s) :
                      s[j] = sep /\ \A h \in 1..(j-1) : s[h] # sep
         IN  <<SubSeq(s, 1, i-1)>> \o split(SubSeq(s, i+1, Len(s)), sep)

\* q[-1]
last(q) == q[Len(q)]

\* str.rfind(c) + 1: position of the last c, 0 when there is none
rfind(s, c) ==
    IF \E i \in 1..Len(s) : s[i] = c
    THEN CHOOSE i \in 1..Len(s) : s[i] = c /\ \A j \in (i+1)..Len(s) : s[j] # c
    ELSE 0

Whitespace == {" ", "\n", "\t"}

\* str.lstrip(chars)
RECURSIVE lstrip(_, _)
lstrip(s, chars) ==
    IF s # <<>> /\ s[1] \in chars THEN lstrip(Tail(s), chars) ELSE s

\* str.rstrip(chars)
RECURSIVE rstrip(_, _)
rstrip(s, chars) ==
    IF s # <<>> /\ s[Len(s)] \in chars
    THEN rstrip(SubSeq(s, 1, Len(s) - 1), chars)
    ELSE s

\* str.strip(chars); strip() is strip(Whitespace)
strip(s, chars) == rstrip(lstrip(s, chars), chars)

(***************************************************************************)
(* MIME classifier.                                                        *)
(***************************************************************************)
OctetStream == "application/octet-stream"

\* the extension -> MIME table, the same in both scripts
mime_types ==
    (<<"j","p","g">>     :> "image/jpeg") @@
    (<<"j","p","e","g">> :> "image/jpeg") @@
    (<<"p","n","g">>     :> "image/png")  @@
    (<<"b","m","p">>     :> "image/bmp")  @@
    (<<"g","i","f">>     :> "image/gif")  @@
    (<<"t","i","f","f">> :> "image/tiff") @@
    (<<"t","i","f">>     :> "image/tiff") @@
    (<<"w","e","b","p">> :> "image/webp") @@
    (<<"p","d","f">>     :> "application/pdf")

\* dict.get(key, default)
dict_get(d, key, default) == IF key \in DOMAIN d THEN d[key] ELSE default

\* rawcod.get_mime_type(file_path: str)
rawcod_get_mime_type(path) ==
    LET ext == last(split(lower(path), "."))
    IN  dict_get(mime_types, ext, OctetStream)

\* pathlib: PurePath.suffix of a path whose final component is `name`
path_suffix(name) ==
    LET i == rfind(name, ".")
    IN  IF 1 < i /\ i < Len(name) THEN SubSeq(name, i, Len(name)) ELSE <<>>

\* pathlib: PurePath.stem
path_stem(name) ==
    LET i == rfind(name, ".")
    IN  IF 1 < i /\ i < Len(name) THEN SubSeq(name, 1, i - 1) ELSE name

\* process_service.get_mime_type(path: Path); `name` is path.name
service_get_mime_type(name) ==
    LET ext == lstrip(lower(path_suffix(name)), {"."})
    IN  dict_get(mime_types, ext, OctetStream)

get_mime_type(s, path) ==
    IF s = "rawcod" THEN rawcod_get_mime_type(path)
    ELSE service_get_mime_type(path)

(***************************************************************************)
(* Values that may be absent (os.getenv -> None, a file that does not      *)
(* exist, a JSON key that is missing) and results that may be exceptions.  *)
(***************************************************************************)
None == [set |-> FALSE, val |-> <<>>]
Some(v) == [set |-> TRUE, val |-> v]

\* Python truthiness of an optional string: neither None nor ""
truthy(o) == o.set /\ o.val # <<>>

Return(v) == [exc |-> "none", err |-> "none", val |-> v]
Raise(class, label) == [exc |-> class, err |-> label, val |-> <<>>]

\* os.getenv(name)
getenv(name) == env[name]

\* os.getenv(name, default)
getenv_default(name, default) ==
    IF env[name].set THEN env[name].val ELSE default

(***************************************************************************)
(* Configuration resolver (identical in both scripts).                     *)
(***************************************************************************)
validate_credentials ==
    LET creds_path == getenv("GOOGLE_APPLICATION_CREDENTIALS")
    IN  IF ~truthy(creds_path)
        THEN Raise("RuntimeError", "MissingCredentialEnv")
        ELSE IF ~fsys.creds_exists
        THEN Raise("RuntimeError", "CredentialFileNotFound")
        ELSE Return(creds_path.val)

\* fsys.creds_json is what json.load makes of the file: json_ok is FALSE when
\* it raises JSONDecodeError, project_id is data.get("project_id").
load_project_id(creds_path) ==
    LET data == fsys.creds_json
        raised == IF ~data.json_ok THEN "JSONDecodeError"
                  ELSE IF ~truthy(data.project_id) THEN "ValueError"
                  ELSE "none"
    IN  IF raised = "JSONDecodeError"        \* except json.JSONDecodeError
        THEN Raise("RuntimeError", "InvalidCredentialFormat")
        ELSE IF raised # "none"              \* any other class leaves the try
        THEN Raise(raised, "MissingProjectId")
        ELSE Return(data.project_id.val)

load_processor_id ==
    LET env_id == getenv("DOCAI_PROCESSOR_ID")
    IN  IF truthy(env_id)
        THEN Return(strip(env_id.val, Whitespace))
        ELSE IF fsys.processor_file.set
                /\ strip(fsys.processor_file.val, Whitespace) # <<>>
        THEN Return(strip(fsys.processor_file.val, Whitespace))
        ELSE Raise("RuntimeError", "MissingProcessorId")

\* client.processor_path(project_id, location, processor_id) and rawcod's f-string:
\* projects/<project_id>/locations/<location>/processors/<processor_id>
processor_path(project_id, location, processor_id) ==
    <<"projects", project_id, "locations", location, "processors", processor_id>>

(***************************************************************************)
(* Inputs of a run.                                                        *)
(***************************************************************************)
Scripts == {"rawcod", "process_service"}

CredsEnvValues == {None, Some(<<>>), Some(<<"c",".","j","s","o","n">>)}
ProcessorEnvValues ==
    {None, Some(<<>>), Some(<<" ">>), Some(<<"p","1">>), Some(<<" ","p","1"," ">>)}
LocationEnvValues == {None, Some(<<>>), Some(<<"e","u">>)}

Environments ==
    [GOOGLE_APPLICATION_CREDENTIALS : CredsEnvValues,
     DOCAI_PROCESSOR_ID : ProcessorEnvValues,
     DOCAI_LOCATION : LocationEnvValues]

CredsJsonValues ==
    {[json_ok |-> FALSE, project_id |-> None],
     [json_ok |-> TRUE,  project_id |-> None],
     [json_ok |-> TRUE,  project_id |-> Some(<<>>)],
     [json_ok |-> TRUE,  project_id |-> Some(<<"p","r","j">>)]}
ProcessorFileValues ==
    {None, Some(<<>>), Some(<<"\n">>), Some(<<"p","2","\n">>)}

FileSystems ==
    [creds_exists : BOOLEAN,
     creds_json : CredsJsonValues,
     processor_file : ProcessorFileValues]

EmptyConfig ==
    [creds_path |-> <<>>, project_id |-> <<>>, processor_id |-> <<>>,
     location |-> <<>>]

EmptyDict == <<>>

\* d[key] = value
dict_set(d, key, value) ==
    [x \in DOMAIN d \cup {key} |-> IF x = key THEN value ELSE d[x]]

EmptyInvoice == [header |-> EmptyDict, line_items |-> <<>>, footer |-> EmptyDict]

InitRun ==
    /\ pc = "start"
    /\ env \in Environments
    /\ fsys \in FileSystems
    /\ cfg = EmptyConfig
    /\ file_path = <<>>
    /\ found = FALSE
    /\ mime_type = ""
    /\ listing = <<>>
    /\ files = <<>>
    /\ idx = 0
    /\ failedAt = 0
    /\ submitted = <<>>
    /\ written = <<>>
    /\ entities = <<>>
    /\ k = 0
    /\ structured_invoice = EmptyInvoice
    /\ transaction_id = ""
    /\ err = "none"
    /\ exc = "none"
    /\ ret = -1

Init == script \in Scripts /\ InitRun

(***************************************************************************)
(* main(): how a run ends.                                                 *)
(***************************************************************************)
\* return code
ReturnWith(code, label) ==
    /\ pc' = "done"
    /\ ret' = code
    /\ err' = label
    /\ exc' = "none"

\* an exception no except clause of main() matches
Propagate(class, label) ==
    /\ pc' = "uncaught"
    /\ exc' = class
    /\ err' = label
    /\ ret' = -1

(***************************************************************************)
(* main(), both scripts: the try block that resolves the configuration.    *)
(* `except RuntimeError` returns 1; any other class leaves main().         *)
(***************************************************************************)
ResolveConfig ==
    /\ pc = "start"
    /\ LET c == validate_credentials
           p == IF c.exc = "none" THEN load_project_id(c.val) ELSE c
           r == IF p.exc = "none" THEN load_processor_id ELSE p
       IN  IF r.exc = "none"
           THEN /\ cfg' = [creds_path   |-> c.val,
                           project_id   |-> p.val,
                           processor_id |-> r.val,
                           location     |-> getenv_default("DOCAI_LOCATION", <<"u","s">>)]
                /\ pc' = IF script = "rawcod" THEN "import" ELSE "client"
                /\ UNCHANGED <<err, exc, ret>>
           ELSE /\ IF r.exc = "RuntimeError"
                   THEN ReturnWith(1, r.err)
                   ELSE Propagate(r.exc, r.err)
                /\ UNCHANGED cfg
    /\ UNCHANGED <<script, env, fsys, file_path, found, mime_type, listing, files,
                   idx, failedAt, submitted, written, entities, k,
                   structured_invoice, transaction_id>>

(***************************************************************************)
(* rawcod.main(), steps 2-4: import, input file, remote call.              *)
(***************************************************************************)
Stay == UNCHANGED <<script, env, fsys, cfg>>

\* the request dictionary of both scripts; the content is that of the file at `path`
RequestFor(c, path, mime) ==
    [name |-> processor_path(c.project_id, c.location, c.processor_id),
     raw_document |-> [content |-> path, mime_type |-> mime]]

Request(path, mime) == RequestFor(cfg, path, mime)

\* STEP 2: from google.cloud import documentai
ImportClient ==
    /\ script = "rawcod" /\ pc = "import"
    /\ \E import_ok \in BOOLEAN :
          IF import_ok
          THEN pc' = "input" /\ UNCHANGED <<err, exc, ret>>
          ELSE ReturnWith(1, "ImportError")
    /\ Stay
    /\ UNCHANGED <<file_path, found, mime_type, listing, files, idx, failedAt,
                   submitted, written, entities, k, structured_invoice,
                   transaction_id>>

Quote == "\""

\* what the user may pass as sys.argv[1] or type at the prompt
InputPaths ==
    {<<"a",".","p","d","f">>,
     <<"p","d","f">>,
     <<"n",".","t","x","t">>,
     <<"d",".","x","/","a",".","P","N","G">>,
     <<" ",Quote,"a",".","p","d","f",Quote,"\n">>}

\* STEP 3, first half: sys.argv[1], or input(...).strip().strip('"')
GetInputFile ==
    /\ script = "rawcod" /\ pc = "input"
    /\ \E has_argv \in BOOLEAN, text \in InputPaths :
          file_path' = IF has_argv THEN text
                       ELSE strip(strip(text, Whitespace), {Quote})
    /\ pc' = "validate"
    /\ Stay
    /\ UNCHANGED <<found, mime_type, listing, files, idx, failedAt, submitted,
                   written, entities, k, structured_invoice, transaction_id,
                   err, exc, ret>>

\* STEP 3, second half: os.path.exists, get_mime_type, the sentinel check
ValidateInput ==
    /\ script = "rawcod" /\ pc = "validate"
    /\ \E exists \in BOOLEAN :
          IF ~exists
          THEN /\ ReturnWith(1, "FileNotFound")
               /\ UNCHANGED <<found, mime_type>>
          ELSE /\ found' = TRUE
               /\ mime_type' = rawcod_get_mime_type(file_path)
               /\ IF mime_type' = OctetStream
                  THEN ReturnWith(1, "UnsupportedMimeType")
                  ELSE pc' = "process" /\ UNCHANGED <<err, exc, ret>>
    /\ Stay
    /\ UNCHANGED <<file_path, listing, files, idx, failedAt, submitted, written,
                   entities, k, structured_invoice, transaction_id>>

(***************************************************************************)
(* Documents the remote processor may return.                              *)
(***************************************************************************)
header_fields ==
    {"invoice_id", "invoice_date", "supplier_name", "supplier_address",
     "supplier_tax_id", "supplier_iban", "receiver_name", "receiver_address",
     "receiver_tax_id", "invoice_type"}
footer_fields == {"net_amount", "total_tax_amount", "vat", "total_amount"}

Entity(type, text, children) ==
    [type_ |-> type, mention_text |-> text, properties |-> children]

\* the document of the specification's end-to-end example
ExampleDocument ==
    <<Entity("invoice_id", "INV-1", <<>>),
      Entity("line_item", "Widget", <<Entity(<<"q","t","y">>, "3", <<>>)>>),
      Entity("total_amount", "42.00", <<>>)>>

DriverDocuments == {<<>>, ExampleDocument}

\* STEP 4: the try block around client construction, file read and
\* client.process_document; `except Exception` returns 1.
ProcessDocumentFail ==
    /\ script = "rawcod" /\ pc = "process"
    /\ \E stage \in {"client", "read", "remote"} :
          /\ submitted' = IF stage = "remote"
                          THEN Append(submitted, Request(file_path, mime_type))
                          ELSE submitted
          /\ ReturnWith(1, IF stage = "read" THEN "ReadError" ELSE "RemoteCallError")
    /\ Stay
    /\ UNCHANGED <<file_path, found, mime_type, listing, files, idx, failedAt,
                   written, entities, k, structured_invoice, transaction_id>>

ProcessDocumentOk ==
    /\ script = "rawcod" /\ pc = "process"
    /\ submitted' = Append(submitted, Request(file_path, mime_type))
    /\ entities' \in DriverDocuments
    /\ structured_invoice' = EmptyInvoice
    /\ k' = 1
    /\ pc' = "normalize"
    /\ Stay
    /\ UNCHANGED <<file_path, found, mime_type, listing, files, idx, failedAt,
                   written, transaction_id, err, exc, ret>>

(***************************************************************************)
(* rawcod.main(), step 5: the response normalizer.                         *)
(***************************************************************************)
\* mutant of collect_properties: the first child of a trailing segment is kept
RECURSIVE collect_properties_first_wins(_, _)
collect_properties_first_wins(props, children) ==
    IF children = <<>> THEN props
    ELSE LET child == Head(children)
             child_type == last(split(child.type_, "/"))
         IN  collect_properties_first_wins(
                 IF child_type \in DOMAIN props THEN props
                 ELSE dict_set(props, child_type, child.mention_text),
                 Tail(children))

\* the inner loop: for child in entity.properties
RECURSIVE collect_properties(_, _)
collect_properties(props, children) ==
    IF children = <<>> THEN props
    ELSE LET child == Head(children)
             child_type == last(split(child.type_, "/"))
         IN  collect_properties(dict_set(props, child_type, child.mention_text),
                                Tail(children))

entity_details(entity) ==
    [value |-> entity.mention_text,
     properties |-> collect_properties(EmptyDict, entity.properties)]

\* mutant of classify: a line item is put in front of the list
classify_prepend(invoice, entity) ==
    LET entity_type == entity.type_
        details == entity_details(entity)
    IN  IF entity_type \in header_fields
        THEN [invoice EXCEPT !.header = dict_set(@, entity_type, details)]
        ELSE IF entity_type = "line_item"
        THEN [invoice EXCEPT !.line_items = <<details>> \o @]
        ELSE IF entity_type \in footer_fields
        THEN [invoice EXCEPT !.footer = dict_set(@, entity_type, details)]
        ELSE [invoice EXCEPT !.header = dict_set(@, entity_type, details)]

\* mutant of classify: an unrecognized type goes to the footer
classify_default_footer(invoice, entity) ==
    LET entity_type == entity.type_
        details == entity_details(entity)
    IN  IF entity_type \in header_fields
        THEN [invoice EXCEPT !.header = dict_set(@, entity_type, details)]
        ELSE IF entity_type = "line_item"
        THEN [invoice EXCEPT !.line_items = Append(@, details)]
        ELSE [invoice EXCEPT !.footer = dict_set(@, entity_type, details)]

\* mutant of classify: an entry a map already holds is kept (dict.setdefault)
classify_first_wins(invoice, entity) ==
    LET entity_type == entity.type_
        details == entity_details(entity)
        keep(d) == IF entity_type \in DOMAIN d THEN d
                   ELSE dict_set(d, entity_type, details)
    IN  IF entity_type \in header_fields
        THEN [invoice EXCEPT !.header = keep(@)]
        ELSE IF entity_type = "line_item"
        THEN [invoice EXCEPT !.line_items = Append(@, details)]
        ELSE IF entity_type \in footer_fields
        THEN [invoice EXCEPT !.footer = keep(@)]
        ELSE [invoice EXCEPT !.header = keep(@)]

\* the if / elif chain of the loop body
classify(invoice, entity) ==
    LET entity_type == entity.type_
        details == entity_details(entity)
    IN  IF entity_type \in header_fields
        THEN [invoice EXCEPT !.header = dict_set(@, entity_type, details)]
        ELSE IF entity_type = "line_item"
        THEN [invoice EXCEPT !.line_items = Append(@, details)]
        ELSE IF entity_type \in footer_fields
        THEN [invoice EXCEPT !.footer = dict_set(@, entity_type, details)]
        ELSE [invoice EXCEPT !.header = dict_set(@, entity_type, details)]

\* one iteration of: for entity in document.entities
NormalizeEntity ==
    /\ script = "rawcod" /\ pc = "normalize"
    /\ k <= Len(entities)
    /\ structured_invoice' = classify(structured_invoice, entities[k])
    /\ k' = k + 1
    /\ Stay
    /\ UNCHANGED <<pc, file_path, found, mime_type, listing, files, idx, failedAt,
                   submitted, written, entities, transaction_id, err, exc, ret>>

\* the values str(uuid.uuid4()) may take
TransactionIds == {"uuid-1", "uuid-2"}

AddTransactionId ==
    /\ script = "rawcod" /\ pc = "normalize"
    /\ k > Len(entities)
    /\ \E id \in TransactionIds :
          /\ transaction_id' = id
          /\ structured_invoice' = dict_set(structured_invoice, "transaction_id", id)
    /\ pc' = "save"
    /\ Stay
    /\ UNCHANGED <<file_path, found, mime_type, listing, files, idx, failedAt,
                   submitted, written, entities, k, err, exc, ret>>

\* os.path.basename
basename(path) == SubSeq(path, rfind(path, "/") + 1, Len(path))

\* os.path.splitext(name)[0] of a name without directory part
splitext_root(name) ==
    LET d == rfind(name, ".")
    IN  IF d > 0 /\ \E j \in 1..(d-1) : name[j] # "."
        THEN SubSeq(name, 1, d - 1)
        ELSE name

\* STEP 6: mkdir, open, json.dump (outside every try), then return 0
SaveOutput ==
    /\ script = "rawcod" /\ pc = "save"
    /\ \E write_ok \in BOOLEAN :
          IF write_ok
          THEN /\ written' = Append(written,
                      [name |-> splitext_root(basename(file_path)),
                       suffix |-> "_structured_<date>.json"])
               /\ ReturnWith(0, "none")
          ELSE /\ Propagate("OSError", "WriteError")
               /\ UNCHANGED written
    /\ Stay
    /\ UNCHANGED <<file_path, found, mime_type, listing, files, idx, failedAt,
                   submitted, entities, k, structured_invoice, transaction_id>>

(***************************************************************************)
(* process_service.main(): client, directory listing, the batch loop.      *)
(***************************************************************************)
\* documentai.DocumentProcessorServiceClient() and client.processor_path(...),
\* both outside every try
CreateClient ==
    /\ script = "process_service" /\ pc = "client"
    /\ \E client_ok \in BOOLEAN :
          IF client_ok
          THEN pc' = "list" /\ UNCHANGED <<err, exc, ret>>
          ELSE Propagate("Exception", "RemoteCallError")
    /\ Stay
    /\ UNCHANGED <<file_path, found, mime_type, listing, files, idx, failedAt,
                   submitted, written, entities, k, structured_invoice,
                   transaction_id>>

\* names the input directory may hold
DirNames ==
    {<<"a",".","p","d","f">>,
     <<"a",".","P","N","G">>,
     <<"b",".","j","p","g">>,
     <<"n",".","t","x","t">>,
     <<"p","d","f">>}

DirEntries == [name : DirNames, is_file : BOOLEAN]

\* INPUT_DIR.iterdir(): the entries in any order, no name twice
Listings ==
    {l \in SeqsUpTo(DirEntries, MaxFiles) :
        \A i, j \in 1..Len(l) : i # j => l[i].name # l[j].name}

\* mutant of supported: the MIME check of the comprehension is missing
supported_any_file(entry) == entry.is_file

\* the comprehension: p.is_file() and get_mime_type(p) != "application/octet-stream"
supported(entry) ==
    entry.is_file /\ service_get_mime_type(entry.name) # OctetStream

\* the names of the entries the comprehension keeps, in order
RECURSIVE keep_supported(_)
keep_supported(l) ==
    IF l = <<>> THEN <<>>
    ELSE (IF supported(Head(l)) THEN <<Head(l).name>> ELSE <<>>)
         \o keep_supported(Tail(l))

\* INPUT_DIR.exists(), files = [...], if not files
ListFiles ==
    /\ script = "process_service" /\ pc = "list"
    /\ \E dir_exists \in BOOLEAN, l \in Listings :
          IF ~dir_exists
          THEN /\ ReturnWith(1, "InputDirNotFound")
               /\ UNCHANGED <<listing, files, idx>>
          ELSE /\ listing' = l
               /\ files' = keep_supported(l)
               /\ IF files' = <<>>
                  THEN ReturnWith(1, "NoSupportedFiles") /\ UNCHANGED idx
                  ELSE pc' = "loop" /\ idx' = 1 /\ UNCHANGED <<err, exc, ret>>
    /\ Stay
    /\ UNCHANGED <<file_path, found, mime_type, failedAt, submitted, written,
                   entities, k, structured_invoice, transaction_id>>

\* loop body, process_file(client, name, path) returns
ProcessFileOk ==
    /\ script = "process_service" /\ pc = "loop"
    /\ idx <= Len(files)
    /\ submitted' = Append(submitted,
                           Request(files[idx], service_get_mime_type(files[idx])))
    /\ written' = Append(written, [name |-> path_stem(files[idx]),
                                   suffix |-> "_processed.json"])
    /\ idx' = idx + 1
    /\ Stay
    /\ UNCHANGED <<pc, file_path, found, mime_type, listing, files, failedAt,
                   entities, k, structured_invoice, transaction_id, err, exc, ret>>

\* mutant of ProcessFileFail: the except clause prints and goes on with the next file
ProcessFileFail_continue ==
    /\ script = "process_service" /\ pc = "loop"
    /\ idx <= Len(files)
    /\ \E stage \in {"read", "remote", "write"} :
          /\ submitted' = IF stage = "read" THEN submitted
                          ELSE Append(submitted,
                                  Request(files[idx], service_get_mime_type(files[idx])))
          /\ err' = IF stage = "remote" THEN "RemoteCallError"
                    ELSE IF stage = "read" THEN "ReadError" ELSE "WriteError"
    /\ failedAt' = idx
    /\ idx' = idx + 1
    /\ Stay
    /\ UNCHANGED <<pc, exc, ret, file_path, found, mime_type, listing, files,
                   written, entities, k, structured_invoice, transaction_id>>

\* loop body, process_file raises (reading the file, in process_document, or
\* writing the output): `except Exception` prints and returns 1
ProcessFileFail ==
    /\ script = "process_service" /\ pc = "loop"
    /\ idx <= Len(files)
    /\ \E stage \in {"read", "remote", "write"} :
          /\ submitted' = IF stage = "read" THEN submitted
                          ELSE Append(submitted,
                                  Request(files[idx], service_get_mime_type(files[idx])))
          /\ ReturnWith(1, IF stage = "remote" THEN "RemoteCallError"
                           ELSE IF stage = "read" THEN "ReadError" ELSE "WriteError")
    /\ failedAt' = idx
    /\ Stay
    /\ UNCHANGED <<file_path, found, mime_type, listing, files, idx, written,
                   entities, k, structured_invoice, transaction_id>>

\* the loop is exhausted: return 0
BatchDone ==
    /\ script = "process_service" /\ pc = "loop"
    /\ idx > Len(files)
    /\ ReturnWith(0, "none")
    /\ Stay
    /\ UNCHANGED <<file_path, found, mime_type, listing, files, idx, failedAt,
                   submitted, written, entities, k, structured_invoice,
                   transaction_id>>

(***************************************************************************)
(* Specification of a whole run of either script.                          *)
(***************************************************************************)
Next ==
    \/ ResolveConfig
    \/ ImportClient
    \/ GetInputFile
    \/ ValidateInput
    \/ ProcessDocumentFail
    \/ ProcessDocumentOk
    \/ NormalizeEntity
    \/ AddTransactionId
    \/ SaveOutput
    \/ CreateClient
    \/ ListFiles
    \/ ProcessFileOk
    \/ ProcessFileFail
    \/ BatchDone

Spec == Init /\ [][Next]_vars

(***************************************************************************)
(* Specification of the response normalizer alone: rawcod.main() from the  *)
(* point where client.process_document has returned a document, over a     *)
(* wider set of documents than the whole-run specification explores.       *)
(***************************************************************************)
EntityTypes ==
    {"invoice_id", "supplier_name", "line_item", "total_amount", "vat",
     "custom_field"}

\* the types of the direct children: plain, prefixed once or twice, ending in
\* the separator, empty
ChildTypes ==
    {<<"q">>, <<"t">>, <<"l","/","q">>, <<"l","/","t">>,
     <<"a","/","b","/","q">>, <<"q","/">>, <<"/">>, <<>>}

Grandchild == Entity(<<"t">>, "9", <<>>)

Children ==
    {Entity(t, text, <<>>) : t \in ChildTypes, text \in {"3", "4"}}
    \cup {Entity(<<"l","/","q">>, "3", <<Grandchild>>)}

\* entities with any children, alone in their document
RichEntities ==
    {Entity(t, "v1", cs) :
        t \in {"invoice_id", "line_item", "total_amount", "custom_field"},
        cs \in SeqsUpTo(Children, MaxChildren)}

\* entities of every type in two variants, in documents of several entities
SmallEntities ==
    {Entity(t, "v1", <<>>) : t \in EntityTypes}
    \cup {Entity(t, "v2", <<Entity(<<"l","/","q">>, "3", <<>>)>>) : t \in EntityTypes}

NormDocuments ==
    SeqsUpTo(SmallEntities, MaxEntities)
    \cup {<<e>> : e \in RichEntities}
    \cup {ExampleDocument}

NormEnv ==
    [GOOGLE_APPLICATION_CREDENTIALS |-> Some(<<"c",".","j","s","o","n">>),
     DOCAI_PROCESSOR_ID |-> Some(<<"p","1">>),
     DOCAI_LOCATION |-> None]

NormFileSystem ==
    [creds_exists |-> TRUE,
     creds_json |-> [json_ok |-> TRUE, project_id |-> Some(<<"p","r","j">>)],
     processor_file |-> None]

NormConfig ==
    [creds_path |-> <<"c",".","j","s","o","n">>, project_id |-> <<"p","r","j">>,
     processor_id |-> <<"p","1">>, location |-> <<"u","s">>]

InitNorm ==
    /\ script = "rawcod"
    /\ pc = "normalize"
    /\ env = NormEnv
    /\ fsys = NormFileSystem
    /\ cfg = NormConfig
    /\ file_path = <<"a",".","p","d","f">>
    /\ found = TRUE
    /\ mime_type = "application/pdf"
    /\ listing = <<>>
    /\ files = <<>>
    /\ idx = 0
    /\ failedAt = 0
    /\ submitted = <<RequestFor(NormConfig, <<"a",".","p","d","f">>, "application/pdf")>>
    /\ written = <<>>
    /\ entities \in NormDocuments
    /\ k = 1
    /\ structured_invoice = EmptyInvoice
    /\ transaction_id = ""
    /\ err = "none"
    /\ exc = "none"
    /\ ret = -1

NextNorm ==
    \/ NormalizeEntity
    \/ AddTransactionId
    \/ SaveOutput

SpecNorm == InitNorm /\ [][NextNorm]_vars

(***************************************************************************)
(* Specification of the MIME classifier alone: get_mime_type of either     *)
(* script applied to a file name.                                          *)
(***************************************************************************)
Extensions == DOMAIN mime_types

capitalize(s) == IF s = <<>> THEN s ELSE <<UpperChar(s[1])>> \o Tail(s)

\* what may follow the prefix of a name: every extension of the table in lower,
\* upper and mixed case, and texts that are no extension of the table
NameTails ==
    Extensions
    \cup {upper(e) : e \in Extensions}
    \cup {capitalize(e) : e \in Extensions}
    \cup {<<>>, <<"t","x","t">>, <<"p","d">>, <<"p","d","f","x">>, <<"d","o","c">>}

FileNames ==
    {p \o t : p \in SeqsUpTo({"x", "."}, MaxPrefixLen), t \in NameTails}

InitMime ==
    /\ script \in Scripts
    /\ pc = "classify"
    /\ env = NormEnv
    /\ fsys = NormFileSystem
    /\ cfg = EmptyConfig
    /\ file_path \in FileNames
    /\ found = FALSE
    /\ mime_type = ""
    /\ listing = <<>>
    /\ files = <<>>
    /\ idx = 0
    /\ failedAt = 0
    /\ submitted = <<>>
    /\ written = <<>>
    /\ entities = <<>>
    /\ k = 0
    /\ structured_invoice = EmptyInvoice
    /\ transaction_id = ""
    /\ err = "none"
    /\ exc = "none"
    /\ ret = -1

\* mime_type = get_mime_type(file_path)
ClassifyMime ==
    /\ pc = "classify"
    /\ mime_type' = get_mime_type(script, file_path)
    /\ pc' = "classified"
    /\ UNCHANGED <<script, env, fsys, cfg, file_path, found, listing, files, idx,
                   failedAt, submitted, written, entities, k, structured_invoice,
                   transaction_id, err, exc, ret>>

NextMime == ClassifyMime

SpecMime == InitMime /\ [][NextMime]_vars

(***************************************************************************)
(* The statements checked.  What a statement expects is written from the   *)
(* statement's own words, not with the operators the actions use.          *)
(***************************************************************************)
\* the text after the last `sep` of s, the whole of s when it holds none
AfterLast(s, sep) == SubSeq(s, rfind(s, sep) + 1, Len(s))

\* the properties map a statement expects of an entity's direct children: one key
\* per distinct trailing segment, mapped to the text of the last child with it
ExpectedProperties(children) ==
    [seg \in {AfterLast(children[i].type_, "/") : i \in 1..Len(children)} |->
        LET i == CHOOSE j \in 1..Len(children) :
                    /\ AfterLast(children[j].type_, "/") = seg
                    /\ \A h \in (j+1)..Len(children) :
                          AfterLast(children[h].type_, "/") # seg
        IN  children[i].mention_text]

ExpectedDetails(entity) ==
    [value |-> entity.mention_text,
     properties |-> ExpectedProperties(entity.properties)]

\* the entities the normalizer loop has gone through
Processed == SubSeq(entities, 1, k - 1)

IsLineItem(e) == e.type_ = "line_item"

\* the last processed entity of type t
LastOfType(t) ==
    Processed[CHOOSE i \in 1..Len(Processed) :
                 /\ Processed[i].type_ = t
                 /\ \A j \in (i+1)..Len(Processed) : Processed[j].type_ # t]

\* C1: every error of the taxonomy is caught inside main() and turned into
\* return value 1; no exception leaves main().
C1_AllErrorsCaught ==
    /\ exc = "none"
    /\ pc # "uncaught"
    /\ (pc = "done" /\ err # "none") => ret = 1

\* C2: whenever a script has reached client.process_document, the four
\* configuration fields are non-empty strings, whatever the environment holds.
C2_ConfigNonEmptyAtRemoteCall ==
    submitted # <<>> =>
        /\ cfg.creds_path # <<>>
        /\ cfg.project_id # <<>>
        /\ cfg.processor_id # <<>>
        /\ cfg.location # <<>>

\* C3: every request handed to process_document carries a supported MIME type;
\* in single-file mode the path was found to exist and its get_mime_type is not
\* the sentinel, in batch mode the file is a regular file of the input directory
\* whose get_mime_type is not the sentinel.
C3_OnlySupportedSubmitted ==
    \A i \in 1..Len(submitted) :
        LET doc == submitted[i].raw_document
        IN  /\ doc.mime_type # OctetStream
            /\ \E e \in Extensions : mime_types[e] = doc.mime_type
            /\ script = "rawcod" =>
                  /\ found
                  /\ doc.content = file_path
                  /\ doc.mime_type = rawcod_get_mime_type(file_path)
            /\ script = "process_service" =>
                  /\ doc.mime_type = service_get_mime_type(doc.content)
                  /\ \E j \in 1..Len(listing) :
                        listing[j].name = doc.content /\ listing[j].is_file

\* C3 witness: a batch run has submitted two files of a directory that also
\* holds a regular file of unsupported type.
C3_Witness ==
    /\ script = "process_service"
    /\ Len(submitted) = 2
    /\ \E j \in 1..Len(listing) :
          listing[j].is_file /\ listing[j].name = <<"n",".","t","x","t">>

\* C4: for every file name, get_mime_type of either script returns the documented
\* MIME string when the lower-cased text after the last '.' is an extension of
\* the table, and the sentinel for any other extension and for a name without '.'.
C4_MimeAsDocumented ==
    pc = "classified" =>
        LET has_dot == \E i \in 1..Len(file_path) : file_path[i] = "."
            ext == lower(AfterLast(file_path, "."))
        IN  mime_type = IF has_dot /\ ext \in Extensions
                        THEN mime_types[ext]
                        ELSE OctetStream

\* C5: every processed entity of type 'line_item' is in line_items and in neither
\* map; line_items holds exactly one element per processed 'line_item' entity,
\* in input order.
C5_LineItemsInOrder ==
    LET items == SelectSeq(Processed, IsLineItem)
    IN  /\ Len(structured_invoice.line_items) = Len(items)
        /\ \A i \in 1..Len(items) :
              structured_invoice.line_items[i] = ExpectedDetails(items[i])
        /\ "line_item" \notin DOMAIN structured_invoice.header
        /\ "line_item" \notin DOMAIN structured_invoice.footer

\* C5 witness: the loop has gone through two different line items with another
\* entity between them.
C5_Witness ==
    /\ pc = "done" /\ ret = 0
    /\ Len(entities) = 3
    /\ IsLineItem(entities[1]) /\ ~IsLineItem(entities[2]) /\ IsLineItem(entities[3])
    /\ entities[1] # entities[3]

\* C6: every processed entity that is no 'line_item' is a key of exactly one map:
\* the footer if its type is a footer field, the header otherwise; the maps hold
\* no other keys; the end-to-end example gives the documented result.
C6_ExactlyOneMap ==
    /\ \A i \in 1..Len(Processed) :
          LET t == Processed[i].type_
          IN  ~IsLineItem(Processed[i]) =>
                 IF t \in {"net_amount", "total_tax_amount", "vat", "total_amount"}
                 THEN /\ t \in DOMAIN structured_invoice.footer
                      /\ t \notin DOMAIN structured_invoice.header
                 ELSE /\ t \in DOMAIN structured_invoice.header
                      /\ t \notin DOMAIN structured_invoice.footer
    /\ \A t \in DOMAIN structured_invoice.header \cup DOMAIN structured_invoice.footer :
          \E i \in 1..Len(Processed) : Processed[i].type_ = t
    /\ (entities = ExampleDocument /\ k > Len(entities)) =>
          /\ structured_invoice.header =
                ("invoice_id" :> [value |-> "INV-1", properties |-> <<>>])
          /\ structured_invoice.line_items =
                << [value |-> "Widget", properties |-> (<<"q","t","y">> :> "3")] >>
          /\ structured_invoice.footer =
                ("total_amount" :> [value |-> "42.00", properties |-> <<>>])

\* C6 witness: a finished run over a header field, an unrecognized type and a
\* footer field.
C6_Witness ==
    /\ pc = "done" /\ ret = 0
    /\ \E a, b, c \in 1..Len(entities) :
          /\ entities[a].type_ = "supplier_name"
          /\ entities[b].type_ = "custom_field"
          /\ entities[c].type_ = "vat"

\* C7: a map holds one entry per type, with the value and the properties of the
\* last processed entity of that type.
C7_LastWriteWins ==
    /\ \A t \in DOMAIN structured_invoice.header :
          structured_invoice.header[t] = ExpectedDetails(LastOfType(t))
    /\ \A t \in DOMAIN structured_invoice.footer :
          structured_invoice.footer[t] = ExpectedDetails(LastOfType(t))

\* C7 witness: a finished run over two different entities of one header type and
\* one over two different entities of one footer type share this shape.
C7_Witness ==
    /\ pc = "done" /\ ret = 0
    /\ Len(entities) = 3
    /\ entities[1].type_ = entities[3].type_
    /\ entities[1].type_ \in {"invoice_id", "custom_field", "vat"}
    /\ entities[1] # entities[3]

\* C8: the batch loop submits the files one at a time in list order; the first
\* file whose process_file raises ends the run with return value 1, nothing later
\* is submitted or written, the outputs written before remain; return value 0
\* means every supported file was submitted and written.
C8_BatchFailFast ==
    script = "process_service" =>
        /\ Len(submitted) <= Len(files)
        /\ \A i \in 1..Len(submitted) : submitted[i].raw_document.content = files[i]
        /\ Len(written) <= Len(submitted) /\ Len(submitted) <= Len(written) + 1
        /\ \A i \in 1..Len(written) :
              written[i] = [name |-> path_stem(files[i]), suffix |-> "_processed.json"]
        /\ failedAt > 0 =>
              /\ pc = "done" /\ ret = 1
              /\ Len(submitted) <= failedAt
              /\ Len(written) = failedAt - 1
        /\ ret = 0 =>
              /\ failedAt = 0
              /\ files # <<>>
              /\ Len(submitted) = Len(files)
              /\ Len(written) = Len(files)

\* C8 witness: of three supported files the second failed after the first was
\* written.
C8_Witness ==
    /\ script = "process_service"
    /\ pc = "done" /\ ret = 1
    /\ Len(files) = 3 /\ failedAt = 2
    /\ Len(written) = 1

\* C9 relates two runs on the same entities (same content, different uuid4
\* values); it is a statement about pairs of behaviours and about the random
\* generator, and has no formula here.

\* C10: the properties map of every entity kept in the result has one key per
\* distinct trailing segment of its direct children's types, mapped to the text
\* of the last child with that segment; children of children add nothing; an
\* entity without children has an empty map.
C10_PropertiesFlattened ==
    LET items == SelectSeq(Processed, IsLineItem)
        expected(e) == ExpectedProperties(e.properties)
    IN  /\ Len(structured_invoice.line_items) = Len(items)
        /\ \A i \in 1..Len(items) :
              /\ structured_invoice.line_items[i].properties = expected(items[i])
              /\ items[i].properties = <<>> =>
                    DOMAIN structured_invoice.line_items[i].properties = {}
        /\ \A t \in DOMAIN structured_invoice.header :
              structured_invoice.header[t].properties = expected(LastOfType(t))
        /\ \A t \in DOMAIN structured_invoice.footer :
              structured_invoice.footer[t].properties = expected(LastOfType(t))

\* C10 witness: a finished run over an entity whose two children share a trailing
\* segment under different prefixes and texts, the first with a child of its own.
C10_Witness ==
    /\ pc = "done" /\ ret = 0
    /\ Len(entities) = 1
    /\ Len(entities[1].properties) = 2
    /\ entities[1].properties[1] = Entity(<<"l","/","q">>, "3", <<Grandchild>>)
    /\ entities[1].properties[2] = Entity(<<"a","/","b","/","q">>, "4", <<>>)

=============================================================================
